---- MODULE Spec2Model ----
(***************************************************************************)
(* useSmartForm: the Form wrapper and the Field renderer built on a        *)
(* react-hook-form state instance with a zod resolver.                     *)
(*                                                                         *)
(* The model follows both versions of src/core/useSmartForm that the       *)
(* repository carries (the current one and the earlier one), the variable  *)
(* version selects between them.  The state instance (methods) is the pair *)
(* values / errors together with isSubmitted; one action per native event  *)
(* (change, file change, blur, submit), each ending with the re-render of  *)
(* every Field that the value and form-state subscriptions trigger.        *)
(***************************************************************************)
EXTENDS Integers, Sequences, FiniteSets, TLC

(***************************************************************************)
(* Bounds of the model.                                                    *)
(***************************************************************************)
MaxSubmits == 2   \* submit events per behaviour
MaxFiles == 2     \* files selected in one change event of a file input

(***************************************************************************)
(* State.  version, form, options, rest, hasOnSubmit are the inputs of one *)
(* use of the hook and never change; values, errors, isSubmitted and       *)
(* submitCount are the state instance (methods); output is what each Field *)
(* rendered last; onSubmitCalls, onSubmitArg, setValueCalls and event      *)
(* record what the handlers did; host records what the last step did to    *)
(* the component that calls useSmartForm and to the components it returns. *)
(***************************************************************************)
VARIABLES version, form, options, rest, hasOnSubmit,
          values, errors, isSubmitted, submitCount,
          output, onSubmitCalls, onSubmitArg, setValueCalls, event, host

config == <<version, form, options, rest, hasOnSubmit>>
vars == <<version, form, options, rest, hasOnSubmit, values, errors, isSubmitted,
          submitCount, output, onSubmitCalls, onSubmitArg, setValueCalls, event,
          host>>

(***************************************************************************)
(* JavaScript values, tagged by their type.  A string is the sequence of   *)
(* its characters, so that conversions are computed and not assumed.       *)
(***************************************************************************)
Undefined == [t |-> "undefined"]
Null == [t |-> "null"]
NaN == [t |-> "NaN"]
Num(n) == [t |-> "number", n |-> n]
Str(s) == [t |-> "string", s |-> s]
Bool(b) == [t |-> "boolean", b |-> b]
FileObj(id) == [t |-> "File", id |-> id]
Arr(items) == [t |-> "array", items |-> items]

Digits == <<"0", "1", "2", "3", "4", "5", "6", "7", "8", "9">>

IsDigit(c) == \E i \in 1..Len(Digits) : Digits[i] = c

DigitValue(c) == (CHOOSE i \in 1..Len(Digits) : Digits[i] = c) - 1

RECURSIVE Decimal(_)
Decimal(s) ==
  IF s = <<>> THEN 0
  ELSE 10 * Decimal(SubSeq(s, 1, Len(s) - 1)) + DigitValue(s[Len(s)])

\* unary plus of a non-empty string
UnaryPlus(s) ==
  IF \A i \in 1..Len(s) : IsDigit(s[i]) THEN Num(Decimal(s)) ELSE NaN

RECURSIVE TrimStart(_)
TrimStart(s) ==
  IF s # <<>> /\ Head(s) = " " THEN TrimStart(Tail(s)) ELSE s

RECURSIVE TrimEnd(_)
TrimEnd(s) ==
  IF s # <<>> /\ s[Len(s)] = " " THEN TrimEnd(SubSeq(s, 1, Len(s) - 1)) ELSE s

Trim(s) == TrimEnd(TrimStart(s))

(***************************************************************************)
(* The forms the model composes.  A form is the schema handed to           *)
(* useSmartForm together with the Field elements placed inside Form.       *)
(***************************************************************************)
Happy == <<"H", "a", "p", "p", "y">>
Sad == <<"S", "a", "d">>

Forms == {"signup", "upload", "choice"}

FieldNames(f) ==
  CASE f = "signup" -> {"isStudent", "age", "level"}
    [] f = "upload" -> {"doc", "nick"}
    [] f = "choice" -> {"mood", "plan", "tint", "phone"}

AllNames == UNION {FieldNames(f) : f \in Forms}

\* the keys of the form in use, and the multiple attribute of its file Field
names == FieldNames(form)
multiple == "multiple" \in rest

\* type FieldType of the version
FieldType(v) ==
  {"text", "number", "checkbox", "select", "textarea", "email", "file", "date",
   "range", "radio"} \cup (IF v = "current" THEN {"password", "tel"} ELSE {})

\* the props of each Field element: FieldProps without options and rest
FieldProps(name) ==
  CASE name = "isStudent" ->
         [type |-> "checkbox", label |-> TRUE, checkBoxLabel |-> TRUE,
          showWhen |-> "none", displayValue |-> FALSE]
    [] name = "age" ->
         [type |-> "number", label |-> TRUE, checkBoxLabel |-> FALSE,
          showWhen |-> "isStudent", displayValue |-> FALSE]
    [] name = "level" ->
         [type |-> "range", label |-> TRUE, checkBoxLabel |-> FALSE,
          showWhen |-> "none", displayValue |-> TRUE]
    [] name = "doc" ->
         [type |-> "file", label |-> TRUE, checkBoxLabel |-> FALSE,
          showWhen |-> "none", displayValue |-> FALSE]
    [] name = "nick" ->
         [type |-> "text", label |-> FALSE, checkBoxLabel |-> FALSE,
          showWhen |-> "hasDoc", displayValue |-> FALSE]
    [] name = "phone" ->
         [type |-> "tel", label |-> TRUE, checkBoxLabel |-> FALSE,
          showWhen |-> "none", displayValue |-> FALSE]
    [] name = "mood" ->
         [type |-> "select", label |-> TRUE, checkBoxLabel |-> FALSE,
          showWhen |-> "none", displayValue |-> FALSE]
    [] name = "plan" ->
         [type |-> "radio", label |-> TRUE, checkBoxLabel |-> FALSE,
          showWhen |-> "hasPhone", displayValue |-> FALSE]
    [] name = "tint" ->
         [type |-> "color", label |-> TRUE, checkBoxLabel |-> FALSE,
          showWhen |-> "moodHappy", displayValue |-> FALSE]

\* the options prop a select or radio Field may be given
NoOptions == [given |-> FALSE, list |-> <<>>]
OptionsChoices ==
  {NoOptions, [given |-> TRUE, list |-> <<>>], [given |-> TRUE, list |-> <<Happy, Sad>>]}

\* the passthrough attributes (rest) a file Field may be given
RestChoices == SUBSET {"onChange", "multiple"}

\* JavaScript truthiness
Truthy(v) ==
  CASE v.t = "undefined" -> FALSE
    [] v.t = "null" -> FALSE
    [] v.t = "NaN" -> FALSE
    [] v.t = "number" -> v.n # 0
    [] v.t = "string" -> v.s # <<>>
    [] v.t = "boolean" -> v.b
    [] OTHER -> TRUE

\* the showWhen predicates of the forms, applied to the full values object
showWhen(pred, vals) ==
  CASE pred = "isStudent" -> Truthy(vals["isStudent"])
    [] pred = "hasDoc" -> Truthy(vals["doc"])
    [] pred = "hasPhone" -> Truthy(vals["phone"])
    [] pred = "moodHappy" -> vals["mood"] = Str(Happy)

\* mutant: the visibility of the render before the change is kept
shouldRender_stale(name, vals) ==
  IF FieldProps(name).showWhen # "none"
  THEN showWhen(FieldProps(name).showWhen, values)
  ELSE TRUE

\* const shouldRender = showWhen ? showWhen(values) : true
shouldRender(name, vals) ==
  IF FieldProps(name).showWhen # "none"
  THEN showWhen(FieldProps(name).showWhen, vals)
  ELSE TRUE

(***************************************************************************)
(* The schema of each form and the zod resolver.  An entry of the error    *)
(* map is a FieldError; an issue raised below the field's own path (an     *)
(* element of an array) leaves an entry that carries no message.           *)
(***************************************************************************)
NoError == [present |-> FALSE, hasMessage |-> FALSE, message |-> ""]
FieldError(msg) == [present |-> TRUE, hasMessage |-> TRUE, message |-> msg]
NestedError == [present |-> TRUE, hasMessage |-> FALSE, message |-> ""]

\* z.instanceof(File).refine(size): the file numbered 1 is within the size limit
FileAccepted(v) == v.t = "File" /\ v.id <= 1

\* the first issue the schema of the form raises at the key name
schema(name, v, many) ==
  CASE name = "isStudent" ->
         IF v.t = "boolean" THEN NoError
         ELSE IF v.t = "undefined" THEN FieldError("Required")
         ELSE FieldError("Expected boolean")
    [] name \in {"age", "level"} ->
         IF v.t = "undefined" THEN FieldError("Required")
         ELSE IF v.t # "number" THEN FieldError("Expected number, received nan")
         ELSE IF name = "age" /\ v.n < 18 THEN FieldError("Must be an adult")
         ELSE IF name = "level" /\ v.n > 10 THEN FieldError("Level is at most 10")
         ELSE NoError
    [] name = "doc" /\ many ->
         IF v.t = "undefined" THEN FieldError("Required")
         ELSE IF v.t # "array" THEN FieldError("Expected array")
         ELSE IF v.items = <<>> THEN FieldError("Select a file")
         ELSE IF \E i \in 1..Len(v.items) : ~FileAccepted(v.items[i]) THEN NestedError
         ELSE NoError
    [] name = "doc" /\ ~many ->
         IF v.t # "File" THEN FieldError("Input not instance of File")
         ELSE IF ~FileAccepted(v) THEN FieldError("File too large")
         ELSE NoError
    [] name \in {"nick", "phone"} ->
         IF v.t = "undefined" THEN FieldError("Required")
         ELSE IF v.t # "string" THEN FieldError("Expected string")
         ELSE IF Trim(v.s) = <<>> THEN FieldError("Name is required")
         ELSE NoError
    [] name = "mood" ->
         IF v.t = "undefined" THEN FieldError("Required")
         ELSE IF v \in {Str(Happy), Str(Sad)} THEN NoError
         ELSE FieldError("Invalid enum value")
    [] name = "plan" ->
         IF v.t = "undefined" THEN FieldError("Required")
         ELSE IF v = Str(Happy) THEN NoError
         ELSE FieldError("Only the Happy plan is open")
    [] name = "tint" -> NoError

\* the output of the schema at the key name: z.string().trim() for the names
Coerced(name, v) ==
  IF name \in {"nick", "phone"} /\ v.t = "string" THEN Str(Trim(v.s)) ELSE v

\* mutant: only the keys of the Fields on screen are validated
zodResolver_visibleOnly(keys, vals, many) ==
  LET errs == [n \in keys |->
                 IF shouldRender(n, vals) THEN schema(n, vals[n], many) ELSE NoError]
      ok == \A n \in keys : ~errs[n].present
  IN [errors |-> errs,
      ok |-> ok,
      values |-> [n \in keys |-> IF ok THEN Coerced(n, vals[n]) ELSE Undefined]]

\* zodResolver(props.schema): the errors of all keys, and the parsed data
\* when there is none
zodResolver(keys, vals, many) ==
  LET errs == [n \in keys |-> schema(n, vals[n], many)]
      ok == \A n \in keys : ~errs[n].present
  IN [errors |-> errs,
      ok |-> ok,
      values |-> [n \in keys |-> IF ok THEN Coerced(n, vals[n]) ELSE Undefined]]

(***************************************************************************)
(* Field: the renderer.                                                    *)
(***************************************************************************)
NoElement == [tag |-> "null", handler |-> "none", children |-> 0,
              inlineLabel |-> FALSE, auxShown |-> FALSE, aux |-> Undefined]
Element(tag, handler) == [NoElement EXCEPT !.tag = tag, !.handler = handler]

\* mutant: an empty options array counts as no options
optionsTruthy_nonEmpty(opts) == opts.given /\ opts.list # <<>>

\* options ? ... : null, an empty array being truthy
optionsTruthy(opts) == opts.given

\* the handler the file input ends up with: <input onChange={...} {...rest} />,
\* so an onChange among the passthrough attributes replaces the Field's own
fileHandler(rst) == IF "onChange" \in rst THEN "rest.onChange" ELSE "setValue"

\* mutant: the range case writes through the setter as the file case does
handlerOf_rangeSetter(type, rst) ==
  CASE type = "file" -> fileHandler(rst)
    [] type = "range" -> "setValue"
    [] type = "number" -> "register:valueAsNumber"
    [] OTHER -> "register"

\* how each case of the switch binds its input: register(name),
\* register(name, { valueAsNumber: true }), or the file case's own onChange
handlerOf(type, rst) ==
  CASE type = "file" -> fileHandler(rst)
    [] type \in {"number", "range"} -> "register:valueAsNumber"
    [] OTHER -> "register"

\* the switch on type
inputElement(name, vals, v, opts, rst) ==
  LET p == FieldProps(name)
      type == p.type
      h == handlerOf(type, rst)
  IN CASE type \in {"email", "text", "date"} -> Element("input", h)
       [] type \in {"tel", "password"} /\ type \in FieldType(v) -> Element("input", h)
       [] type = "number" -> Element("input", h)
       [] type = "checkbox" ->
            [Element("input", h) EXCEPT !.inlineLabel = p.checkBoxLabel]
       [] type = "textarea" -> Element("textarea", h)
       [] type = "file" -> Element("input", h)
       [] type = "select" ->
            IF optionsTruthy(opts)
            THEN [Element("select", h) EXCEPT !.children = 1 + Len(opts.list)]
            ELSE NoElement
       [] type = "range" ->
            [Element("input", h) EXCEPT
               !.auxShown = p.displayValue,
               !.aux = IF p.displayValue THEN vals[name] ELSE Undefined]
       [] type = "radio" ->
            IF optionsTruthy(opts)
            THEN [Element("div", h) EXCEPT !.children = Len(opts.list)]
            ELSE NoElement
       [] OTHER -> NoElement

NullNode == [node |-> "null", label |-> FALSE, input |-> NoElement,
             hasError |-> FALSE, errorText |-> ""]

\* mutant: the message is shown without the fallback
errorMessage_noFallback(error) == error.message

\* (error as { message?: string })?.message ?? "This field is required"
errorMessage(error) ==
  IF error.hasMessage THEN error.message ELSE "This field is required"

\* mutant: a Field without an input element returns null
Field_nullWithoutInput(name, vals, errs, v, opts, rst) ==
  IF ~shouldRender(name, vals) \/ inputElement(name, vals, v, opts, rst) = NoElement
  THEN NullNode
  ELSE LET error == errs[name]
           hasError == error.present
       IN [node |-> "div",
           label |-> FieldProps(name).label /\ FieldProps(name).type # "checkbox",
           input |-> inputElement(name, vals, v, opts, rst),
           hasError |-> hasError,
           errorText |-> IF hasError THEN errorMessage(error) ELSE ""]

Field(name, vals, errs, v, opts, rst) ==
  IF ~shouldRender(name, vals) THEN NullNode
  ELSE LET error == errs[name]
           hasError == error.present
       IN [node |-> "div",
           label |-> FieldProps(name).label /\ FieldProps(name).type # "checkbox",
           input |-> inputElement(name, vals, v, opts, rst),
           hasError |-> hasError,
           errorText |-> IF hasError THEN errorMessage(error) ELSE ""]

\* the render pass the value and form-state subscriptions trigger
Render(vals, errs) ==
  [n \in names |-> Field(n, vals, errs, version, options, rest)]

(***************************************************************************)
(* The state instance: useForm as useSmartForm configures it.              *)
(***************************************************************************)
TextInputs == {<<>>, <<"b">>, <<"b", " ">>}
NumberInputs == {<<>>, <<"7">>, <<"4", "2">>, <<"0", "7">>}
RangeInputs == {<<"7">>, <<"4", "2">>}

\* the sequences of distinct files a file input can hold
FileLists(max) ==
  {fs \in UNION {[1..k -> 1..MaxFiles] : k \in 0..max} :
     \A i, j \in 1..Len(fs) : i # j => fs[i] # fs[j]}

NoTarget == [value |-> <<>>, checked |-> FALSE, files |-> <<>>]

\* what a native change event of the rendered input can carry
Targets(name) ==
  LET type == FieldProps(name).type
  IN CASE type = "number" -> {[NoTarget EXCEPT !.value = s] : s \in NumberInputs}
       [] type = "range" -> {[NoTarget EXCEPT !.value = s] : s \in RangeInputs}
       [] type = "checkbox" -> {[NoTarget EXCEPT !.checked = b] : b \in BOOLEAN}
       [] type \in {"select", "radio"} ->
            {[NoTarget EXCEPT !.value = options.list[i]] : i \in 1..Len(options.list)}
       [] type = "file" ->
            {[NoTarget EXCEPT !.files = fs] :
               fs \in FileLists(IF multiple THEN MaxFiles ELSE 1)}
       [] OTHER -> {[NoTarget EXCEPT !.value = s] : s \in TextInputs}

\* useForm({ mode: "onChange", reValidateMode: "onBlur", ... }); the earlier
\* version leaves reValidateMode at the library's default
\* mutant: reValidateMode is left at the library's default in both versions
reValidateMode_default(v) == "onChange"

mode == "onChange"
reValidateMode(v) == IF v = "current" THEN "onBlur" ELSE "onChange"

\* defaultValues: props.defaultValues || {}; the earlier version takes none
DefaultValuesChoices(v, f) ==
  {[n \in FieldNames(f) |-> Undefined]} \cup
  (IF v = "current" /\ f = "signup"
   THEN {[n \in FieldNames(f) |->
            CASE n = "isStudent" -> Bool(TRUE)
              [] n = "age" -> Num(7)
              [] OTHER -> Num(7)]}
   ELSE {})

\* mutant: the range input is registered without valueAsNumber
registerOptions_rangeAsString(type) == [valueAsNumber |-> type = "number"]

\* register(name) and register(name, { valueAsNumber: true })
registerOptions(type) == [valueAsNumber |-> type \in {"number", "range"}]

\* the value the binding reads from the input
getFieldValue(type, target, ropts) ==
  CASE type = "checkbox" -> Bool(target.checked)
    [] ropts.valueAsNumber ->
         IF target.value = <<>> THEN NaN ELSE UnaryPlus(target.value)
    [] OTHER -> Str(target.value)

\* whether the binding skips validation of an event
skipValidation(isBlurEvent, submitted, reValidate) ==
  IF (IF submitted THEN reValidate = "onBlur" ELSE mode = "onBlur")
  THEN ~isBlurEvent
  ELSE IF (IF submitted THEN reValidate = "onChange" ELSE mode = "onChange")
  THEN isBlurEvent
  ELSE TRUE

\* the error map after the binding handled an event of the field name
errorsAfter(name, vals, errs, isBlurEvent) ==
  IF skipValidation(isBlurEvent, isSubmitted, reValidateMode(version))
  THEN errs
  ELSE [errs EXCEPT ![name] = zodResolver(names, vals, multiple).errors[name]]

\* a Field whose input element is mounted and bound by register
Bound(name) ==
  output[name].input.handler \in {"register", "register:valueAsNumber"}

Event(op, name, target, setter) ==
  [op |-> op, name |-> name, target |-> target, setValue |-> setter]

(***************************************************************************)
(* The component that calls useSmartForm.  It renders again whenever the   *)
(* error map changes (Field reads formState.errors of its useForm) and     *)
(* whenever its own parent or state makes it; each render runs the body of *)
(* useSmartForm again, with the same methods.                              *)
(***************************************************************************)
\* React.useCallback(fn, deps): the callback of the previous render is
\* returned when every dependency is the one of the previous render
useCallback(deps, previousDeps) == IF deps = previousDeps THEN "previous" ELSE "new"

\* what a later render returns, against what the render before it returned:
\* the Form and Field closures are created by the render, methods is the one
\* state instance useForm keeps
returned(v) ==
  IF v = "current"
  THEN [methods |-> "previous",
        Form |-> useCallback(<<"Form of this render", "methods", "props.onSubmit">>,
                             <<"Form of the previous render", "methods", "props.onSubmit">>),
        Field |-> "new"]
  ELSE [methods |-> "previous", Form |-> "new", Field |-> "new"]

\* what a step does to the host: the components a render of it replaces, and
\* the Field elements inside Form that are unmounted and mounted again
hostRender(rendered) ==
  LET replaced == IF rendered
                  THEN {c \in {"methods", "Form", "Field"} : returned(version)[c] = "new"}
                  ELSE {}
  IN [rendered |-> rendered,
      replaced |-> replaced,
      remounted |-> IF replaced \cap {"Form", "Field"} # {} THEN names ELSE {}]

(***************************************************************************)
(* Init: the state after useSmartForm(props) and the first render.         *)
(***************************************************************************)
Init ==
  /\ version \in {"current", "earlier"}
  /\ form \in Forms
  /\ options \in (IF form = "choice" THEN OptionsChoices ELSE {NoOptions})
  /\ rest \in (IF form = "upload" THEN RestChoices ELSE {{}})
  /\ hasOnSubmit \in BOOLEAN
  /\ values \in DefaultValuesChoices(version, form)
  /\ errors = [n \in names |-> NoError]
  /\ isSubmitted = FALSE
  /\ submitCount = 0
  /\ output = Render(values, errors)
  /\ onSubmitCalls = 0
  /\ onSubmitArg = [n \in names |-> Undefined]
  /\ setValueCalls = {}
  /\ event = Event("init", "", NoTarget, FALSE)
  /\ host = [rendered |-> TRUE, replaced |-> {}, remounted |-> {}]

(***************************************************************************)
(* onChange of a bound input: the handler register(name) returns.          *)
(***************************************************************************)
onChange(name) ==
  /\ name \in names
  /\ Bound(name)
  /\ \E target \in Targets(name) :
     LET type == FieldProps(name).type
         fieldValue == getFieldValue(type, target, registerOptions(type))
         vals == [values EXCEPT ![name] = fieldValue]
         errs == errorsAfter(name, vals, errors, FALSE)
     IN /\ values' = vals
        /\ errors' = errs
        /\ output' = Render(vals, errs)
        /\ host' = hostRender(errs # errors)
        /\ event' = Event("change", name, target, FALSE)
  /\ UNCHANGED <<config, isSubmitted, submitCount, onSubmitCalls, onSubmitArg,
                 setValueCalls>>

(***************************************************************************)
(* onBlur of a bound input.                                                *)
(***************************************************************************)
onBlur(name) ==
  /\ name \in names
  /\ Bound(name)
  /\ LET errs == errorsAfter(name, values, errors, TRUE)
     IN /\ errors' = errs
        /\ output' = Render(values, errs)
        /\ host' = hostRender(errs # errors)
  /\ event' = Event("blur", name, NoTarget, FALSE)
  /\ UNCHANGED <<config, values, isSubmitted, submitCount, onSubmitCalls,
                 onSubmitArg, setValueCalls>>

(***************************************************************************)
(* The change event of the file input: the Field's own handler calls       *)
(* methods.setValue, a handler passed among rest runs in its place.        *)
(***************************************************************************)
\* the call of methods.setValue the Field's handler makes: [call, value]
fileValue(v, target, many) ==
  IF v = "current"
  THEN IF many
       THEN [call |-> TRUE,
             value |-> Arr([i \in 1..Len(target.files) |-> FileObj(target.files[i])])]
       ELSE [call |-> TRUE,
             value |-> IF target.files # <<>> THEN FileObj(target.files[1]) ELSE Null]
  ELSE IF target.files # <<>>
       THEN [call |-> TRUE, value |-> FileObj(target.files[1])]
       ELSE [call |-> FALSE, value |-> Undefined]

fileOnChange(name) ==
  /\ name \in names
  /\ output[name].input.handler \in {"setValue", "rest.onChange"}
  /\ \E target \in Targets(name) :
     LET set == fileValue(version, target, multiple)
         called == output[name].input.handler = "setValue" /\ set.call
         vals == IF called THEN [values EXCEPT ![name] = set.value] ELSE values
     IN /\ values' = vals
        /\ output' = Render(vals, errors)
        /\ host' = hostRender(FALSE)
        /\ setValueCalls' = IF called THEN setValueCalls \cup {name} ELSE setValueCalls
        /\ event' = Event("fileChange", name, target, called)
  /\ UNCHANGED <<config, errors, isSubmitted, submitCount, onSubmitCalls, onSubmitArg>>

(***************************************************************************)
(* Form: onSubmit={methods.handleSubmit(props.onSubmit || (() => {}))}     *)
(***************************************************************************)
\* mutant: the callback is called whatever the resolver reports
callsOnValid_always(result) == TRUE

\* whether handleSubmit calls its onValid callback
callsOnValid(result) == result.ok

handleSubmit ==
  /\ submitCount < MaxSubmits
  /\ LET result == zodResolver(names, values, multiple)
         valid == callsOnValid(result)
     IN /\ errors' = result.errors
        /\ output' = Render(values, result.errors)
        /\ host' = hostRender(TRUE)
        /\ onSubmitCalls' = IF valid /\ hasOnSubmit THEN onSubmitCalls + 1 ELSE onSubmitCalls
        /\ onSubmitArg' = IF valid /\ hasOnSubmit THEN result.values ELSE onSubmitArg
  /\ isSubmitted' = TRUE
  /\ submitCount' = submitCount + 1
  /\ event' = Event("submit", "", NoTarget, FALSE)
  /\ UNCHANGED <<config, values, setValueCalls>>

(***************************************************************************)
(* A render of the host that no event of the form caused (its parent       *)
(* rendered, its own state changed), with unchanged props.                 *)
(***************************************************************************)
rerender ==
  /\ host' = hostRender(TRUE)
  /\ output' = Render(values, errors)
  /\ UNCHANGED <<config, values, errors, isSubmitted, submitCount, onSubmitCalls,
                 onSubmitArg, setValueCalls, event>>

Next ==
  \/ \E name \in AllNames : onChange(name)
  \/ \E name \in AllNames : onBlur(name)
  \/ \E name \in AllNames : fileOnChange(name)
  \/ handleSubmit
  \/ rerender

Spec == Init /\ [][Next]_vars

(***************************************************************************)
(* Properties.                                                             *)
(***************************************************************************)
Visible(n) == output[n].node # "null"
TypeOf(n) == FieldProps(n).type
Issue(n) == schema(n, values[n], multiple)
Valid == \A n \in names : ~Issue(n).present

\* C1: in every reachable state a Field has produced output exactly when it
\* has no showWhen or showWhen holds of the current full values, whichever
\* field's change (through the binding or through setValue) came last.
C1_VisibilityFollowsValues ==
  \A n \in names :
    Visible(n) <=>
      (FieldProps(n).showWhen = "none" \/ showWhen(FieldProps(n).showWhen, values))

\* a field that was shown and filled in, and is hidden again by a change of
\* the field its showWhen reads
C1_Witness ==
  /\ form = "signup"
  /\ event.op = "change" /\ event.name = "isStudent"
  /\ values["age"] = Num(42)
  /\ ~Visible("age") /\ Visible("level")

\* C2: a submit event invokes onSubmit never when the current values fail the
\* schema, and exactly once, with the schema's output for the current
\* values, when they pass; no other event invokes it.
C2_SubmitCallsOnSubmitIffValid ==
  [][/\ submitCount' # submitCount =>
          /\ ~Valid => onSubmitCalls' = onSubmitCalls /\ onSubmitArg' = onSubmitArg
          /\ Valid /\ hasOnSubmit =>
               /\ onSubmitCalls' = onSubmitCalls + 1
               /\ onSubmitArg' = [n \in names |-> Coerced(n, values[n])]
     /\ submitCount' = submitCount => onSubmitCalls' = onSubmitCalls]_vars

\* a rejected submit followed by an accepted one whose argument is coerced
C2_Witness ==
  /\ form = "upload"
  /\ submitCount = 2 /\ onSubmitCalls = 1 /\ event.op = "submit"
  /\ onSubmitArg["nick"] = Str(<<"b">>) /\ values["nick"] = Str(<<"b", " ">>)

\* C3 as stated: a select or radio Field whose options sequence is empty
\* renders nothing at all.
C3_EmptyOptionsRenderNothing ==
  \A n \in names :
    TypeOf(n) \in {"select", "radio"} /\ options.given /\ options.list = <<>>
      => output[n] = NullNode

\* C3 amended: with an empty options sequence a visible select or radio Field
\* renders its wrapper, its label and its error text, the select holding only
\* the placeholder option and the radio group no radio input; with no
\* options prop the input element alone is missing; a hidden Field renders
\* nothing.
C3_EmptyOptionsRenderNoOption ==
  \A n \in names :
    TypeOf(n) \in {"select", "radio"} /\ options.list = <<>> =>
      IF shouldRender(n, values)
      THEN /\ output[n].node = "div"
           /\ output[n].label = FieldProps(n).label
           /\ output[n].hasError = errors[n].present
           /\ options.given =>
                /\ output[n].input.tag = (IF TypeOf(n) = "select" THEN "select" ELSE "div")
                /\ output[n].input.children = (IF TypeOf(n) = "select" THEN 1 ELSE 0)
           /\ ~options.given => output[n].input = NoElement
      ELSE output[n] = NullNode

\* a select with an empty options array showing its label, an empty select
\* element and an error text
C3_Witness ==
  /\ form = "choice" /\ options.given /\ options.list = <<>>
  /\ output["mood"].label /\ output["mood"].input.tag = "select"
  /\ output["mood"].hasError
  /\ output["plan"].node = "div" /\ output["plan"].input.tag = "div"

C5_FileChangeStoresSelection ==
  event.op = "fileChange" =>
    LET fs == event.target.files
        stored == values[event.name]
    IN /\ ~multiple /\ Len(fs) = 1 => stored = FileObj(fs[1])
       /\ multiple /\ Len(fs) = 2 => stored = Arr(<<FileObj(fs[1]), FileObj(fs[2])>>)

\* C6 as stated: a Field whose type is not an enumerated variant renders
\* nothing: no input element, no label, no error text.
C6_UnmatchedTypeRendersNothing ==
  \A n \in names : TypeOf(n) \notin FieldType(version) => output[n] = NullNode

\* C6 amended: a Field whose type is not an enumerated variant renders no
\* input element; when it is visible its wrapper still renders, with the
\* label if one is given and the error text if the error map has an entry
\* for its name; when showWhen is false it renders nothing.
C6_UnmatchedTypeRendersNoInput ==
  \A n \in names :
    TypeOf(n) \notin FieldType(version) =>
      /\ output[n].input = NoElement
      /\ IF FieldProps(n).showWhen = "none" \/ showWhen(FieldProps(n).showWhen, values)
         THEN /\ output[n].node = "div"
              /\ output[n].label = FieldProps(n).label
              /\ output[n].hasError = errors[n].present
         ELSE output[n] = NullNode

\* a Field of a type the earlier version does not know, showing its label
\* and an error text around no input
C6_Witness ==
  /\ form = "choice" /\ version = "earlier"
  /\ output["phone"].input = NoElement
  /\ output["phone"].label /\ output["phone"].hasError
  /\ output["phone"].errorText = "Required"

\* C7: a visible Field shows error text exactly when the error map has an
\* entry for its name; the text is the entry's message, or "This field is
\* required" when the entry carries none.
C7_ErrorTextFollowsErrorMap ==
  \A n \in names :
    Visible(n) =>
      /\ output[n].hasError <=> errors[n].present
      /\ errors[n].present /\ errors[n].hasMessage =>
           output[n].errorText = errors[n].message
      /\ errors[n].present /\ ~errors[n].hasMessage =>
           output[n].errorText = "This field is required"

\* an entry without a message (the issue lies at an element of the array of
\* files) shown as the fallback text
C7_Witness ==
  /\ form = "upload"
  /\ values["doc"].t = "array"
  /\ errors["doc"] = NestedError
  /\ output["doc"].hasError
  /\ output["doc"].errorText = "This field is required"

\* C8 as stated: among the bound inputs the range variant, and no other,
\* writes through setValue, and so does the file variant whenever its own
\* handler stores a selection.
C8_SetterUsedByFileAndRange ==
  /\ event.op = "change" => (event.setValue <=> TypeOf(event.name) = "range")
  /\ event.op = "fileChange"
       /\ output[event.name].input.handler = "setValue"
       /\ event.target.files # <<>>
       => event.setValue

\* C8 amended: a Field requests mutation through setValue in the file
\* variant only; the range variant, like every other variant, is bound by
\* register and never calls the setter.
C8_SetterUsedByFileOnly ==
  /\ setValueCalls \subseteq {n \in names : TypeOf(n) = "file"}
  /\ \A n \in names :
       /\ output[n].input.handler = "setValue" => TypeOf(n) = "file"
       /\ TypeOf(n) = "range" /\ Visible(n) =>
            output[n].input.handler = "register:valueAsNumber"
  /\ event.setValue => event.op = "fileChange" /\ TypeOf(event.name) = "file"
  /\ event.op = "change" => ~event.setValue

\* a value stored by a change of the range input with no call of the setter
C8_Witness ==
  /\ form = "signup"
  /\ event.op = "change" /\ event.name = "level"
  /\ values["level"] = Num(42)
  /\ ~event.setValue /\ setValueCalls = {}

IssueAt(n, vals) == schema(n, vals[n], multiple)

\* C9 as stated: after every value change of a field, through the binding or
\* through the file field's setter, before or after a submit attempt, the
\* error map's entry of that field is the validator's result for the current
\* values.
C9_ErrorsFollowEveryChange ==
  \/ event.op = "change"
  \/ event.op = "fileChange" /\ event.setValue
  => errors[event.name] = Issue(event.name)

\* C9 amended: a change of a bound input brings the field's own entry up to
\* date with the validator's result while no submit was attempted (in the
\* earlier version, always), and leaves the other entries alone; after a
\* submit attempt a change leaves the error map as it was and the entry is
\* brought up to date by the field's blur; a change through the file field's
\* setter never touches the error map; each submit replaces the whole map by
\* the validator's result.
C9_ErrorsFollowValidationModes ==
  [][LET op == event'.op
         n == event'.name
         revalidateOnBlur == version = "current" /\ isSubmitted
     IN /\ op = "change" /\ ~revalidateOnBlur =>
             /\ errors'[n] = IssueAt(n, values')
             /\ \A m \in names \ {n} : errors'[m] = errors[m]
        /\ op = "change" /\ revalidateOnBlur => errors' = errors
        /\ op = "blur" /\ revalidateOnBlur =>
             /\ errors'[n] = IssueAt(n, values')
             /\ \A m \in names \ {n} : errors'[m] = errors[m]
        /\ op = "blur" /\ ~revalidateOnBlur => errors' = errors
        /\ op = "fileChange" => errors' = errors
        /\ op = "submit" => errors' = [m \in names |-> IssueAt(m, values')]]_vars

\* after a submit attempt, a change has left a bound field with the error
\* entry of its older value
C9_Witness ==
  /\ version = "current" /\ isSubmitted
  /\ event.op = "change"
  /\ errors[event.name].present
  /\ ~Issue(event.name).present

\* C10: a Field that turns hidden keeps the value and the error entry at its
\* key, no event changes the value of a hidden Field, and a submit validates
\* the hidden Fields' values too: one that fails the schema gets its error
\* entry and keeps onSubmit from being invoked.
C10_HiddenFieldKeptAndValidated ==
  [][\A n \in names :
       /\ Visible(n) /\ output'[n].node = "null" =>
            values'[n] = values[n] /\ errors'[n] = errors[n]
       /\ ~Visible(n) => values'[n] = values[n]
       /\ submitCount' # submitCount /\ ~Visible(n) /\ Issue(n).present =>
            /\ onSubmitCalls' = onSubmitCalls
            /\ errors'[n] = Issue(n)
            /\ values'[n] = values[n]]_vars

\* a submit rejected only because of the value a hidden Field holds
C10_Witness ==
  /\ form = "signup" /\ hasOnSubmit
  /\ event.op = "submit"
  /\ ~Visible("age") /\ values["age"] = Num(7)
  /\ errors["age"].present
  /\ ~errors["isStudent"].present /\ ~errors["level"].present
  /\ onSubmitCalls = 0

\* C11 as stated: across the renders of the component that calls
\* useSmartForm with unchanged props, Form and Field stay the same
\* components on the same state instance, so no value change, error change
\* or render of the host replaces them or unmounts and remounts the Fields
\* inside Form.
C11_ComponentsKeepIdentity ==
  host.replaced = {} /\ host.remounted = {}

====
